---------------------------- MODULE Spec2Model ----------------------------
(***************************************************************************)
(* The embodied swarm simulator (class ResonanceEngine): bots with an      *)
(* oscillator phase that couple to their neighbours and push one heavy     *)
(* object over a bounded plane.                                            *)
(*                                                                         *)
(* Numbers.  The engine computes with IEEE doubles.  The model represents  *)
(* a real r by the integer r * S (S = 10^4: four decimal digits) and       *)
(* truncates every product and quotient toward zero.  The heavy object is  *)
(* 1000 times heavier than a bot's force budget, so its velocity and the   *)
(* fraction of its position are kept in units FINE times smaller.          *)
(* TLC's integers are 32 bits wide; MulDiv cancels common factors so that  *)
(* the intermediate products of the engine's formulas stay inside them.    *)
(***************************************************************************)
EXTENDS Integers, Sequences, FiniteSets, TLC

\* ------------------------------------------------------------ fixed point

S == 10^4
FINE == 10^5

Abs(a) == IF a < 0 THEN -a ELSE a
Sgn(a) == IF a < 0 THEN -1 ELSE IF a > 0 THEN 1 ELSE 0
Max(a, b) == IF a >= b THEN a ELSE b
Min(a, b) == IF a <= b THEN a ELSE b

RECURSIVE GCD(_, _)
GCD(a, b) == IF b = 0 THEN a ELSE GCD(b, a % b)

\* a * b / c for naturals, rounded down: the larger factor is divided first,
\* so that the intermediate product stays small.
SplitMulDiv(a, b, c) ==
    IF a >= b
    THEN (a \div c) * b + ((a % c) * b) \div c
    ELSE (b \div c) * a + ((b % c) * a) \div c

\* The same, with the common factors of the divisor cancelled first.
CancelA(a, b, c, g) == SplitMulDiv(a \div g, b, c \div g)
CancelB(a, b, c, g) == CancelA(a, b \div g, c \div g, GCD(a, c \div g))
MulDivNat(a, b, c) == CancelB(a, b, c, GCD(b, c))

\* a * b / c truncated toward zero, as a real product or quotient would be
\* when cut to the model's digits.
MulDiv(a, b, c) ==
    IF a = 0 \/ b = 0 THEN 0
    ELSE Sgn(a) * Sgn(b) * Sgn(c) * MulDivNat(Abs(a), Abs(b), Abs(c))

\* Product and quotient of two reals in S units.
Mul(a, b) == MulDiv(a, b, S)
Div(a, b) == MulDiv(a, S, b)

\* JavaScript's % on numbers: the remainder keeps the sign of the dividend.
JsRem(a, m) == IF a >= 0 THEN a % m ELSE -((-a) % m)

\* Math.sqrt on naturals below 2^31, rounded down: the root is found bit by
\* bit from the top, four bits to a step; b is the weight of the lowest of
\* the four bits in turn, and r, the root so far, always fits.
RootFits(n, r) == r <= 46340 /\ r * r <= n
RootBit(n, r, b) == IF RootFits(n, r + b) THEN r + b ELSE r
RootBits(n, r, b) ==
    RootBit(n, RootBit(n, RootBit(n, RootBit(n, r, 8 * b), 4 * b), 2 * b), b)
RECURSIVE SqrtBits(_, _, _)
SqrtBits(n, r, b) ==
    IF b = 0 \/ ~RootFits(n, r) THEN r
    ELSE SqrtBits(n, RootBits(n, r, b), b \div 16)

Isqrt(n) == SqrtBits(n, 0, 4096)

\* Math.sqrt(dx * dx + dy * dy).  The components are first brought below
\* HypotLimit (a float keeps the leading digits in the same way), so the
\* sum of squares fits.
HypotLimit == 2 * S
HypotScale(dx, dy) == (Max(Abs(dx), Abs(dy)) \div HypotLimit) + 1
SumSquares(a, b) == a * a + b * b
HypotScaled(dx, dy, k) == k * Isqrt(SumSquares(Abs(dx) \div k, Abs(dy) \div k))
Hypot(dx, dy) == HypotScaled(dx, dy, HypotScale(dx, dy))

\* (dx / dist, dy / dist) in S units; <<0, 0>> for the zero vector, which
\* every caller guards against.  The length is rounded up and the quotients
\* toward zero, so that the result is never longer than a unit vector.
Normalized(a, b, len) ==
    IF len = 0 THEN <<0, 0>> ELSE <<MulDiv(a, S, len), MulDiv(b, S, len)>>
RootUp(n, r) == IF r * r = n THEN r ELSE r + 1
UnitOfSquares(a, b, n) == Normalized(a, b, RootUp(n, Isqrt(n)))
UnitOfScaled(a, b) == UnitOfSquares(a, b, SumSquares(a, b))
UnitScaled(dx, dy, k) ==
    UnitOfScaled(Sgn(dx) * (Abs(dx) \div k), Sgn(dy) * (Abs(dy) \div k))
Unit(dx, dy) == UnitScaled(dx, dy, HypotScale(dx, dy))

\* --------------------------------------------------------------- Math.PI

PI == 31416
TWO_PI == 2 * PI
HALF_PI == PI \div 2
QUARTER_PI == PI \div 4

\* ceil(a * b / S) and ceil(a / n) for naturals.
MulUp(a, b) == (a * b + S - 1) \div S
DivUp(a, n) == (a + n - 1) \div n

\* Math.sin and Math.cos on [0, pi/4], by their Taylor polynomials cut after
\* a negative term and rounded down, so that the pair never lies outside the
\* unit circle.  lo and hi bound the powers of x from below and above.
SinPoly(x, x3hi, x5lo, x7hi) ==
    Max(0, x - DivUp(x3hi, 6) + (x5lo \div 120) - DivUp(x7hi, 5040))
SinPowers(x, x2hi, x4lo, x4hi) ==
    SinPoly(x, MulUp(x2hi, x), (x4lo * x) \div S, MulUp(MulUp(x4hi, x2hi), x))
CosPoly(x2hi, x4lo, x6hi) ==
    Max(0, S - DivUp(x2hi, 2) + (x4lo \div 24) - DivUp(x6hi, 720))
CosPowers(x2hi, x4lo, x4hi) == CosPoly(x2hi, x4lo, MulUp(x4hi, x2hi))
Squares(x2lo, x2hi) == <<x2hi, (x2lo * x2lo) \div S, MulUp(x2hi, x2hi)>>
SinOf(x, p) == SinPowers(x, p[1], p[2], p[3])
CosOf(p) == CosPowers(p[1], p[2], p[3])
SinSmall(x) == SinOf(x, Squares((x * x) \div S, MulUp(x, x)))
CosSmall(x) == CosOf(Squares((x * x) \div S, MulUp(x, x)))

\* sin on [0, pi/2].
SinQuadrant(x) ==
    IF x <= QUARTER_PI THEN SinSmall(x) ELSE CosSmall(HALF_PI - x)

\* sin on [0, 2 pi): folded into the first quadrant.
SinTurn(x) ==
    (IF x <= PI THEN 1 ELSE -1)
    * SinQuadrant(IF x <= HALF_PI THEN x
                  ELSE IF x <= PI THEN PI - x
                  ELSE IF x <= PI + HALF_PI THEN x - PI
                  ELSE TWO_PI - x)

\* Math.sin and Math.cos of any angle (in S units of a radian).
Sin(x) == SinTurn(x % TWO_PI)
Cos(x) == SinTurn((x + HALF_PI) % TWO_PI)

\* -------------------------------------------------- embodied swarm constants

WORLD_SIZE == 1000 * S
BOT_RADIUS == 15 * S
OBJECT_RADIUS == 50 * S
RESONANCE_RANGE == 100 * S
COUPLING_STRENGTH == S \div 10
MAX_FORCE == 5 * S
DT == (16 * S) \div 1000

OBJECT_MASS == 1000 * S
PUSH_MARGIN == 20 * S
SAMPLE_EVERY == 10

VARIABLES
    NUM_BOTS,   \* the population size: a compile-time constant of the source
    bots,       \* this.bots: id -> Bot
    object,     \* this.object
    pc,         \* where run_simulation stands
    steps,      \* the argument of run_simulation
    i,          \* the loop index of run_simulation
    results,    \* the samples run_simulation collects
    snapshot,   \* what was written to embodied_swarm_results.json
    force,      \* per bot, the force update_bots accumulated and applied last
    push,       \* the force update_object accumulated last, bot by bot
    tick_start, \* the bots and the object as the running tick found them
    calls,      \* what this call of run_simulation has called, and how often
    sampled_at, \* the values of i at which this call pushed a sample
    thrown,     \* what run_simulation threw at its caller
    twin,       \* the constructor's draws, and what a first engine made of them
    votes,         \* background.js: the votes pending since the last decision
    heard,         \* every 'vote' message the listener has handled, in order
    responses,     \* what sendResponse was called with, message by message
    audioContext,  \* the tone player's audioContext: 0 is null
    oscillator,    \* the tone player's oscillator: 0 is null
    gainNode,      \* the tone player's gainNode: 0 is null
    context_state, \* per AudioContext created, its state attribute
    started,       \* per oscillator created, the calls of its start()
    start_calls    \* per call of start(), where it stands or how it ended

engine_vars == <<NUM_BOTS, bots, object, pc, steps, i, results, snapshot,
                 force, push, tick_start, calls, sampled_at, thrown, twin>>
background_vars == <<votes, heard, responses>>
player_vars == <<audioContext, oscillator, gainNode, context_state, started,
                 start_calls>>
vars == <<engine_vars, background_vars, player_vars>>

\* background.js has run to its end: the listener is registered and no vote
\* has arrived.
ListenerAdded ==
    /\ votes = <<>>
    /\ heard = <<>>
    /\ responses = <<>>

\* createTonePlayer has returned: nothing is created before the first start().
TonePlayerCreated ==
    /\ audioContext = 0
    /\ oscillator = 0
    /\ gainNode = 0
    /\ context_state = <<>>
    /\ started = <<>>
    /\ start_calls = <<>>

Ids == 0 .. (NUM_BOTS - 1)
First(ids) == CHOOSE k \in ids : \A m \in ids : k <= m

\* ----------------------------------------------------------- construction

NewBot(id, x, y, phase, frequency, energy) ==
    [id |-> id, x |-> x, y |-> y, vx |-> 0, vy |-> 0, phase |-> phase,
     frequency |-> frequency, target_x |-> WORLD_SIZE \div 2,
     target_y |-> WORLD_SIZE \div 2, energy |-> energy]

\* x and y are in S units with the fractions xf / FINE and yf / FINE;
\* vx and vy are in units of 1 / (S * FINE).
initialize_object ==
    [x |-> WORLD_SIZE \div 2, y |-> WORLD_SIZE \div 2, xf |-> 0, yf |-> 0,
     vx |-> 0, vy |-> 0, mass |-> OBJECT_MASS, radius |-> OBJECT_RADIUS]

\* ------------------------------------------------------- coupling and force

Distance(a, b) == Hypot(a.x - b.x, a.y - b.y)

\* The coupling without the early return for bots out of range.
CouplingAtAnyRange(distance, phase_diff, energy1, energy2) ==
    Mul(Mul(Mul(Mul(COUPLING_STRENGTH, Cos(phase_diff)),
                S - Div(distance, RESONANCE_RANGE)), energy1), energy2)

\* COUPLING_STRENGTH * phase_factor * distance_factor * energy * energy,
\* or 0 beyond the resonance range.
CouplingAt(distance, phase_diff, energy1, energy2) ==
    IF distance > RESONANCE_RANGE THEN 0
    ELSE Mul(Mul(Mul(Mul(COUPLING_STRENGTH, Cos(phase_diff)),
                     S - Div(distance, RESONANCE_RANGE)), energy1), energy2)

get_resonance_coupling(bot1, bot2) ==
    CouplingAt(Distance(bot1, bot2), Abs(bot1.phase - bot2.phase),
               bot1.energy, bot2.energy)

\* The free phase advance of one bot: phase += frequency * DT, then % 2 pi.
AdvancePhase(bot) ==
    [bot EXCEPT !.phase = JsRem(bot.phase + Mul(bot.frequency, DT), TWO_PI)]

\* The phase term with the sine of the difference taken the other way round.
CoupledByBackwards(coupling, bot, other) ==
    IF coupling = 0 THEN <<0, 0, 0>>
    ELSE <<Mul(Mul(coupling, other.x - bot.x), S \div 100),
           Mul(Mul(coupling, other.y - bot.y), S \div 100),
           Mul(coupling, Sin(bot.phase - other.phase))>>

\* What one coupled neighbour adds to <<force_x, force_y, phase_influence>>.
CoupledBy(coupling, bot, other) ==
    IF coupling = 0 THEN <<0, 0, 0>>
    ELSE <<Mul(Mul(coupling, other.x - bot.x), S \div 100),
           Mul(Mul(coupling, other.y - bot.y), S \div 100),
           Mul(coupling, Sin(other.phase - bot.phase))>>

CouplingTerm(bot, other) ==
    CoupledBy(get_resonance_coupling(bot, other), bot, other)

\* What one neighbour adds to <<force_x, force_y>> by collision avoidance;
\* u is the unit vector from the neighbour to the bot.
RepelAlong(u, repel_force) ==
    <<Mul(Mul(u[1], repel_force), 2 * S), Mul(Mul(u[2], repel_force), 2 * S)>>

RepelAt(dx, dy, dist, min_dist) ==
    IF dist < min_dist /\ dist > 0
    THEN RepelAlong(Unit(dx, dy), Div(min_dist - dist, min_dist))
    ELSE <<0, 0>>

RepelTerm(bot, other) ==
    RepelAt(bot.x - other.x, bot.y - other.y, Distance(bot, other),
            BOT_RADIUS * 2)

Add2(a, b) == <<a[1] + b[1], a[2] + b[2]>>
Add3(a, b) == <<a[1] + b[1], a[2] + b[2], a[3] + b[3]>>

\* The first half of a set of ids, in the order of the ids.
FirstHalf(ids) ==
    {k \in ids : 2 * Cardinality({m \in ids : m < k}) < Cardinality(ids) - 1}

\* The sums that the inner forEach accumulates.  The terms are integers, so
\* their sum does not depend on the order in which they are added: the sum
\* is taken half by half.
RECURSIVE SumCoupling(_, _, _)
SumCoupling(bs, bot, others) ==
    IF others = {} THEN <<0, 0, 0>>
    ELSE IF others = {First(others)}
         THEN CouplingTerm(bot, bs[First(others)])
         ELSE Add3(SumCoupling(bs, bot, FirstHalf(others)),
                   SumCoupling(bs, bot, others \ FirstHalf(others)))

RECURSIVE SumRepel(_, _, _)
SumRepel(bs, bot, others) ==
    IF others = {} THEN <<0, 0>>
    ELSE IF others = {First(others)}
         THEN RepelTerm(bot, bs[First(others)])
         ELSE Add2(SumRepel(bs, bot, FirstHalf(others)),
                   SumRepel(bs, bot, others \ FirstHalf(others)))

\* The vector from a bot to the object's centre.  When the two agree to the
\* last digit of the bot's position, the object's fraction decides.
ToObject(obj, bot) ==
    IF obj.x = bot.x /\ obj.y = bot.y
    THEN <<obj.xf, obj.yf>>
    ELSE <<obj.x - bot.x, obj.y - bot.y>>

\* Target attraction, as the code computes it: toward this.object.
Toward(d, u) ==
    IF d # <<0, 0>>
    THEN <<Mul(u[1], S \div 2), Mul(u[2], S \div 2)>>
    ELSE <<0, 0>>
AttractionAlong(d) == Toward(d, Unit(d[1], d[2]))
Attraction(obj, bot) == AttractionAlong(ToObject(obj, bot))

\* The energy limitation of the accumulated force.
Rescaled(u) == <<Mul(u[1], MAX_FORCE), Mul(u[2], MAX_FORCE)>>

\* The accumulated force handed on as it is.
UncappedForce(f) == f

CapForce(f) ==
    IF Hypot(f[1], f[2]) > MAX_FORCE THEN Rescaled(Unit(f[1], f[2])) ELSE f

Clamp(lo, hi, v) == Max(lo, Min(hi, v))

\* The velocity step with the force taken for a whole unit of time.
DampedUnscaled(v, f, energy) == Mul(v + Mul(f, energy), (95 * S) \div 100)

\* Integration of one bot: velocity, damping, position, world boundaries.
Damped(v, f, energy) == Mul(v + Mul(Mul(f, DT), energy), (95 * S) \div 100)

\* The integration step with the boundary clamp left out.
MovedUnclamped(x, v) == x + Mul(v, DT)

Moved(x, v) == Clamp(BOT_RADIUS, WORLD_SIZE - BOT_RADIUS, x + Mul(v, DT))

\* An integration step that also spends a hundredth of the bot's energy.
IntegratedSpending(bot, phase_influence, vx, vy) ==
    [bot EXCEPT !.phase = bot.phase + Mul(phase_influence, DT),
                !.vx = vx, !.vy = vy,
                !.x = Moved(bot.x, vx), !.y = Moved(bot.y, vy),
                !.energy = Mul(bot.energy, (99 * S) \div 100)]

\* An integration step that adds phase_influence to the phase as it is.
IntegratedDirectly(bot, phase_influence, vx, vy) ==
    [bot EXCEPT !.phase = bot.phase + phase_influence,
                !.vx = vx, !.vy = vy,
                !.x = Moved(bot.x, vx), !.y = Moved(bot.y, vy)]

Integrated(bot, phase_influence, vx, vy) ==
    [bot EXCEPT !.phase = bot.phase + Mul(phase_influence, DT),
                !.vx = vx, !.vy = vy,
                !.x = Moved(bot.x, vx), !.y = Moved(bot.y, vy)]

Applied(bot, phase_influence, raw, f) ==
    [raw |-> raw, applied |-> f,
     bot |-> Integrated(bot, phase_influence,
                        Damped(bot.vx, f[1], bot.energy),
                        Damped(bot.vy, f[2], bot.energy))]

Accumulated(bot, c, raw) == Applied(bot, c[3], raw, CapForce(raw))
Forces(bot, c, a, r) == Accumulated(bot, c, Add2(Add2(<<c[1], c[2]>>, a), r))

\* The body of update_bots' second loop for one bot, which reads the other
\* bots (`others`) as they are in `bs` at that moment.
UpdateBot(bs, id, others, obj) ==
    Forces(bs[id], SumCoupling(bs, bs[id], others), Attraction(obj, bs[id]),
           SumRepel(bs, bs[id], others))

\* bots.forEach in place: bot `id` sees the bots before it already updated.
Store(bs, fs, id, u) ==
    [bots |-> [bs EXCEPT ![id] = u.bot],
     force |-> [fs EXCEPT ![id] = [raw |-> u.raw, applied |-> u.applied]]]

RECURSIVE UpdateFrom(_, _, _)
UpdateFrom(st, id, obj) ==
    IF id \notin DOMAIN st.bots THEN st
    ELSE UpdateFrom(Store(st.bots, st.force, id,
                          UpdateBot(st.bots, id, Ids \ {id}, obj)),
                    id + 1, obj)

NoForce == [raw |-> <<0, 0>>, applied |-> <<0, 0>>]

update_bots(bs, obj) ==
    UpdateFrom([bots |-> [id \in Ids |-> AdvancePhase(bs[id])],
                force |-> [id \in Ids |-> NoForce]], 0, obj)

\* ----------------------------------------------------------- object dynamics

\* The contribution test without the test of the distance.
PushAlongAnywhere(dist, u, dot, energy) ==
    IF dot > 0
    THEN <<Mul(Mul(dot \div S, u[1]), energy),
           Mul(Mul(dot \div S, u[2]), energy), 1>>
    ELSE <<0, 0, 0>>

\* The contribution test with a comparison that also admits dot = 0.
PushAlongOrAcross(dist, u, dot, energy) ==
    IF dist < OBJECT_RADIUS + BOT_RADIUS + PUSH_MARGIN /\ dot >= 0
    THEN <<Mul(Mul(dot \div S, u[1]), energy),
           Mul(Mul(dot \div S, u[2]), energy), 1>>
    ELSE <<0, 0, 0>>

\* What one bot adds to <<total_force_x, total_force_y, interacting_bots>>;
\* u is the unit vector from the object's centre to the bot and dot the
\* bot's velocity along it, the code's vel_toward_obj before rounding.
PushAlong(dist, u, dot, energy) ==
    IF dist < OBJECT_RADIUS + BOT_RADIUS + PUSH_MARGIN /\ dot > 0
    THEN <<Mul(Mul(dot \div S, u[1]), energy),
           Mul(Mul(dot \div S, u[2]), energy), 1>>
    ELSE <<0, 0, 0>>

PushFrom(bot, dist, u) ==
    PushAlong(dist, u, bot.vx * u[1] + bot.vy * u[2], bot.energy)

\* A bot exactly on the object's centre has dist = 0, which is in range, and
\* vel_toward_obj = (bot.vx * 0 + bot.vy * 0) / 0, that is 0 / 0 = NaN.
DividesByZero(obj, bot) == ToObject(obj, bot) = <<0, 0>>

\* NaN > 0 is false: the bot whose vel_toward_obj is NaN adds nothing.
PushAt(obj, bot, d) ==
    IF DividesByZero(obj, bot)
    THEN <<0, 0, 0>>
    ELSE PushFrom(bot,
                  IF obj.x = bot.x /\ obj.y = bot.y
                  THEN 0 ELSE Hypot(d[1], d[2]),
                  Unit(-d[1], -d[2]))

PushTerm(obj, bot) == PushAt(obj, bot, ToObject(obj, bot))

AddPush(id, c, r) ==
    [total |-> <<c[1] + r.total[1], c[2] + r.total[2]>>,
     interacting_bots |-> c[3] + r.interacting_bots,
     terms |-> [r.terms EXCEPT ![id] = c],
     divided_by_zero |-> r.divided_by_zero]

NoPush ==
    [total |-> <<0, 0>>, interacting_bots |-> 0,
     terms |-> [id \in Ids |-> <<0, 0, 0>>],
     divided_by_zero |-> {}]

\* What the bots of `half` and the other bots have added, taken together.
JoinPush(half, p, q) ==
    [total |-> Add2(p.total, q.total),
     interacting_bots |-> p.interacting_bots + q.interacting_bots,
     terms |-> [id \in Ids |-> IF id \in half THEN p.terms[id]
                                ELSE q.terms[id]],
     divided_by_zero |-> p.divided_by_zero \cup q.divided_by_zero]

\* The sum over the bots, taken half by half as in update_bots.
RECURSIVE SumPush(_, _, _)
SumPush(bs, obj, ids) ==
    IF ids = {} THEN NoPush
    ELSE IF ids = {First(ids)}
         THEN AddPush(First(ids), PushTerm(obj, bs[First(ids)]), NoPush)
         ELSE JoinPush(FirstHalf(ids), SumPush(bs, obj, FirstHalf(ids)),
                       SumPush(bs, obj, ids \ FirstHalf(ids)))

\* (total_force / mass) * DT, in the object's velocity units.
ObjectKick(total_force, mass) ==
    Mul(MulDiv(total_force, S * FINE, mass), DT)

\* One coordinate of the object moved by delta (in 1 / FINE of an S unit)
\* and clamped to the world: <<whole part, fraction>>.
Placed(nx, nf, radius) ==
    IF nx < radius THEN <<radius, 0>>
    ELSE IF nx >= WORLD_SIZE - radius THEN <<WORLD_SIZE - radius, 0>>
    ELSE <<nx, nf>>

MoveObject(x, xf, delta, radius) ==
    Placed(x + ((xf + delta) \div FINE), (xf + delta) % FINE, radius)

ObjectMoved(obj, vx, vy, mx, my) ==
    [obj EXCEPT !.vx = vx, !.vy = vy, !.x = mx[1], !.xf = mx[2],
                !.y = my[1], !.yf = my[2]]

ObjectAt(obj, vx, vy) ==
    ObjectMoved(obj, vx, vy,
                MoveObject(obj.x, obj.xf, Mul(vx, DT), OBJECT_RADIUS),
                MoveObject(obj.y, obj.yf, Mul(vy, DT), OBJECT_RADIUS))

Kicked(obj, kx, ky) ==
    ObjectAt(obj, Mul(obj.vx + kx, (98 * S) \div 100),
                  Mul(obj.vy + ky, (98 * S) \div 100))

Pushed(obj, p) ==
    [object |-> IF p.interacting_bots > 0
                THEN Kicked(obj, ObjectKick(p.total[1], obj.mass),
                                 ObjectKick(p.total[2], obj.mass))
                ELSE Kicked(obj, 0, 0),
     push |-> p]

\* The bots for which update_object has divided by a dist of 0.
DividedByZero(bs, obj, p) ==
    [p EXCEPT !.divided_by_zero = {id \in Ids : DividesByZero(obj, bs[id])}]

update_object(bs, obj) ==
    Pushed(obj, DividedByZero(bs, obj, SumPush(bs, obj, Ids)))

\* ------------------------------------------------------------------ metrics

RECURSIVE SumTrig(_, _)
SumTrig(bs, ids) ==
    IF ids = {} THEN <<0, 0>>
    ELSE IF ids = {First(ids)}
         THEN <<Cos(bs[First(ids)].phase), Sin(bs[First(ids)].phase)>>
         ELSE Add2(SumTrig(bs, FirstHalf(ids)),
                   SumTrig(bs, ids \ FirstHalf(ids)))

\* The resultant of the phase vectors without the division by NUM_BOTS.
CoherenceOfSum(sum, n) == Hypot(sum[1], sum[2])

Coherence(sum, n) == Hypot(MulDiv(sum[1], 1, n), MulDiv(sum[2], 1, n))

\* The metrics with the bots listed from the last created to the first.
get_metrics_reversed(bs, obj) ==
    [coherence |-> Coherence(SumTrig(bs, Ids), NUM_BOTS),
     object_speed |-> Hypot(obj.vx, obj.vy),
     object_position |-> [x |-> obj.x, y |-> obj.y,
                          xf |-> obj.xf, yf |-> obj.yf],
     bot_positions |-> [id \in Ids |->
         [x |-> bs[NUM_BOTS - 1 - id].x, y |-> bs[NUM_BOTS - 1 - id].y,
          phase |-> bs[NUM_BOTS - 1 - id].phase]]]

get_metrics(bs, obj) ==
    [coherence |-> Coherence(SumTrig(bs, Ids), NUM_BOTS),
     object_speed |-> Hypot(obj.vx, obj.vy),
     object_position |-> [x |-> obj.x, y |-> obj.y,
                          xf |-> obj.xf, yf |-> obj.yf],
     bot_positions |-> [id \in Ids |->
         [x |-> bs[id].x, y |-> bs[id].y, phase |-> bs[id].phase]]]

\* ------------------------------------------------------------ run_simulation

NoCalls == [update_bots |-> 0, update_object |-> 0, writeFileSync |-> 0]

\* A sample on every step.
ShouldSampleEach(step) == step % 1 = 0

\* A sample at the end of every ten steps: (i + 1) % 10 === 0.
ShouldSampleLast(step) == (step + 1) % SAMPLE_EVERY = 0

\* i % 10 === 0
ShouldSample(step) == step % SAMPLE_EVERY = 0

\* A record with the time of the write where the step count belongs.
final_state_stamped(now, metrics, simulation_steps) ==
    [timestamp |-> now, final_metrics |-> metrics, simulation_steps |-> now]

\* The record that run_simulation writes to embodied_swarm_results.json.
final_state(now, metrics, simulation_steps) ==
    [timestamp |-> now, final_metrics |-> metrics,
     simulation_steps |-> simulation_steps]

\* A loop whose test lets one tick more through.
UpdateBotsOnceMore ==
    /\ pc = "loop"
    /\ i <= steps
    /\ LET u == update_bots(bots, object)
       IN  /\ bots' = u.bots
           /\ force' = u.force
    /\ tick_start' = [bots |-> bots, object |-> object]
    /\ calls' = [calls EXCEPT !.update_bots = @ + 1]
    /\ pc' = "update_object"
    /\ UNCHANGED <<NUM_BOTS, object, steps, i, results, snapshot, push,
                   sampled_at, thrown, twin>>
    /\ UNCHANGED <<background_vars, player_vars>>

\* One tick is UpdateBots, then UpdateObject, then Sample.
UpdateBots ==
    /\ pc = "loop"
    /\ i < steps
    /\ LET u == update_bots(bots, object)
       IN  /\ bots' = u.bots
           /\ force' = u.force
    /\ tick_start' = [bots |-> bots, object |-> object]
    /\ calls' = [calls EXCEPT !.update_bots = @ + 1]
    /\ pc' = "update_object"
    /\ UNCHANGED <<NUM_BOTS, object, steps, i, results, snapshot, push,
                   sampled_at, thrown, twin>>
    /\ UNCHANGED <<background_vars, player_vars>>

\* An object update that reads the bots as they were before the tick.
UpdateObjectStale ==
    /\ pc = "update_object"
    /\ LET u == update_object(tick_start.bots, object)
       IN  /\ object' = u.object
           /\ push' = u.push
    /\ calls' = [calls EXCEPT !.update_object = @ + 1]
    /\ pc' = "sample"
    /\ UNCHANGED <<NUM_BOTS, bots, steps, i, results, snapshot, force,
                   tick_start, sampled_at, thrown, twin>>
    /\ UNCHANGED <<background_vars, player_vars>>

UpdateObject ==
    /\ pc = "update_object"
    /\ LET u == update_object(bots, object)
       IN  /\ object' = u.object
           /\ push' = u.push
    /\ calls' = [calls EXCEPT !.update_object = @ + 1]
    /\ pc' = "sample"
    /\ UNCHANGED <<NUM_BOTS, bots, steps, i, results, snapshot, force,
                   tick_start, sampled_at, thrown, twin>>
    /\ UNCHANGED <<background_vars, player_vars>>

Sample ==
    /\ pc = "sample"
    /\ results' = IF ShouldSample(i)
                  THEN Append(results, get_metrics(bots, object))
                  ELSE results
    /\ sampled_at' = IF ShouldSample(i) THEN Append(sampled_at, i)
                     ELSE sampled_at
    /\ i' = i + 1
    /\ pc' = "loop"
    /\ UNCHANGED <<NUM_BOTS, bots, object, steps, snapshot, force, push,
                   tick_start, calls, thrown, twin>>
    /\ UNCHANGED <<background_vars, player_vars>>

\* What Date.now() may return.
MaxClock == 2
Clock == 1 .. MaxClock

\* fs.writeFileSync of the final state succeeds, and run_simulation returns
\* results.
\* The write before the last tick.
SaveEarly ==
    /\ pc = "loop"
    /\ i + 1 >= steps
    /\ \E now \in Clock :
          snapshot' = <<final_state(now, get_metrics(bots, object), steps)>>
    /\ calls' = [calls EXCEPT !.writeFileSync = @ + 1]
    /\ pc' = "done"
    /\ UNCHANGED <<NUM_BOTS, bots, object, steps, i, results, force, push,
                   tick_start, sampled_at, thrown, twin>>
    /\ UNCHANGED <<background_vars, player_vars>>

\* The write of the metrics from before the last tick.
SaveStale ==
    /\ pc = "loop"
    /\ i >= steps
    /\ \E now \in Clock :
          snapshot' = <<final_state(now, get_metrics(tick_start.bots, tick_start.object), steps)>>
    /\ calls' = [calls EXCEPT !.writeFileSync = @ + 1]
    /\ pc' = "done"
    /\ UNCHANGED <<NUM_BOTS, bots, object, steps, i, results, force, push,
                   tick_start, sampled_at, thrown, twin>>
    /\ UNCHANGED <<background_vars, player_vars>>

Save ==
    /\ pc = "loop"
    /\ i >= steps
    /\ \E now \in Clock :
          snapshot' = <<final_state(now, get_metrics(bots, object), steps)>>
    /\ calls' = [calls EXCEPT !.writeFileSync = @ + 1]
    /\ pc' = "done"
    /\ UNCHANGED <<NUM_BOTS, bots, object, steps, i, results, force, push,
                   tick_start, sampled_at, thrown, twin>>
    /\ UNCHANGED <<background_vars, player_vars>>

\* fs.writeFileSync throws: nothing catches the error, which leaves
\* run_simulation with the record and the results it was about to return.
SaveFails ==
    /\ pc = "loop"
    /\ i >= steps
    /\ \E now \in Clock :
          thrown' = <<[error |-> "writeFileSync",
                       final_state |->
                          final_state(now, get_metrics(bots, object), steps)]>>
    /\ calls' = [calls EXCEPT !.writeFileSync = @ + 1]
    /\ pc' = "thrown"
    /\ UNCHANGED <<NUM_BOTS, bots, object, steps, i, results, snapshot, force,
                   push, tick_start, sampled_at, twin>>
    /\ UNCHANGED <<background_vars, player_vars>>

Next == UpdateBots \/ UpdateObject \/ Sample \/ Save \/ SaveFails

\* ------------------------------------------------------------ initial states

MaxBots == 3
MaxSteps == 3
CrowdBots == 10
CrowdSteps == 18
PairSteps == 12
ChorusBots == 18
ChorusSteps == 2

\* What Math.random() may have drawn for one bot: <<x, y, phase, frequency,
\* energy>>.  The first three lie within push range of the object and within
\* collision range of each other; the last two lie in a corner outside the
\* world boundaries of a bot, out of everyone else's resonance range.
BotInits ==
    { <<5600000, 5000000, 7692, S, S>>,
      <<5377604, 5000000, 7692, S, S>>,
      <<5600000, 5250000, 62670, S, 11000>>,
      <<0, 9999500, 31416, 9000, 8000>>,
      <<10000, 9999500, 0, 10999, 11999>> }

\* A crowd: bots a tenth of a unit apart on a line that leaves the
\* object's centre in the direction (3, 4), all drawn with the same phase,
\* frequency and energy.
CrowdEnergies == {S, 11000, 11999}
CrowdDraw(k, energy) ==
    <<5360000 + 600 * k, 5480000 + 800 * k, 0, S, energy>>

\* A bot drawn exactly on the object's centre: Math.random() = 0.5 for x and
\* for y.
CentreDraw == <<5000000, 5000000, 0, S, S>>

\* A pair: two bots half the resonance range apart, out of each other's
\* collision range and out of push range of the object, with the same
\* frequency and energy; the first drawn with phase 0, the second in
\* anti-phase, near it, or less than a quarter turn away on either side.
PairPhases == {PI, 20000, 15000, 8000, 50000}
PairDraw(id, phase) ==
    IF id = 0 THEN <<2000000, 2000000, 0, S, S>>
    ELSE <<2500000, 2000000, phase, S, S>>

\* A chorus: bots drawn on one spot with the largest energy, the first with
\* the smallest frequency and a phase that its first free advance takes
\* across 2 pi, all the others 0.8 rad behind it.
ChorusDraw(k) ==
    IF k = 0 THEN <<2000000, 2000000, 62690, 9000, 11999>>
    ELSE <<2000000, 2000000, 54690, S, 11999>>

EngineInit(n, draw) ==
    /\ NUM_BOTS = n
    /\ bots = [id \in 0 .. (n - 1) |->
                 NewBot(id, draw[id][1], draw[id][2], draw[id][3],
                        draw[id][4], draw[id][5])]
    /\ object = initialize_object
    /\ pc = "loop"
    /\ i = 0
    /\ results = <<>>
    /\ snapshot = <<>>
    /\ force = [id \in 0 .. (n - 1) |-> NoForce]
    /\ push = [total |-> <<0, 0>>, interacting_bots |-> 0,
               terms |-> [id \in 0 .. (n - 1) |-> <<0, 0, 0>>],
               divided_by_zero |-> {}]
    /\ tick_start = [bots |-> bots, object |-> object]
    /\ calls = NoCalls
    /\ sampled_at = <<>>
    /\ thrown = <<>>
    /\ twin = [draw |-> bots, first |-> <<>>]
    /\ ListenerAdded
    /\ TonePlayerCreated

\* new ResonanceEngine() followed by run_simulation(steps).
Init ==
    \/ /\ steps \in 0 .. MaxSteps
       /\ \E n \in 1 .. MaxBots :
            \E draw \in [0 .. (n - 1) -> BotInits] : EngineInit(n, draw)
    \/ /\ steps = CrowdSteps
       /\ \E energy \in CrowdEnergies :
            EngineInit(CrowdBots,
                       [k \in 0 .. (CrowdBots - 1) |-> CrowdDraw(k, energy)])
    \/ /\ steps = ChorusSteps
       /\ EngineInit(ChorusBots,
                     [k \in 0 .. (ChorusBots - 1) |-> ChorusDraw(k)])
    \/ /\ steps = PairSteps
       /\ \E phase \in PairPhases :
            EngineInit(2, [id \in 0 .. 1 |-> PairDraw(id, phase)])
    \/ /\ steps \in 0 .. MaxSteps
       /\ \E n \in {2, 3} :
            \E others \in [1 .. (n - 1) -> BotInits \cup {CentreDraw}] :
                EngineInit(n, [id \in 0 .. (n - 1) |->
                                  IF id = 0 THEN CentreDraw ELSE others[id]])

Spec == Init /\ [][Next]_vars

\* run_simulation is straight-line code in a single thread: it takes its next
\* step as long as it has one.  It has one until it has returned or thrown,
\* and every step of Next moves pc: Tick says of a step no more than that,
\* so that weak fairness of Tick is weak fairness of Next for the behaviours
\* of Spec, stated without the engine's arithmetic.
Ended == pc = "done" \/ pc = "thrown"
Tick ==
    /\ ~Ended
    /\ pc' \in {"loop", "update_object", "sample", "done", "thrown"}
FairSpec == Spec /\ WF_pc(Tick)

\* ---------------------------------------------------------------- a caller

\* A caller that does more with the class than the main program: after an
\* error it calls run_simulation(0) on the same engine, which runs no tick and
\* writes the record again; after a run without error it constructs a second
\* engine from the same draws and runs it for the same number of steps.
CallerBots == 2

Retry ==
    /\ pc = "thrown"
    /\ steps' = 0
    /\ i' = 0
    /\ results' = <<>>
    /\ calls' = NoCalls
    /\ sampled_at' = <<>>
    /\ pc' = "loop"
    /\ UNCHANGED <<NUM_BOTS, bots, object, snapshot, force, push, tick_start,
                   thrown, twin>>
    /\ UNCHANGED <<background_vars, player_vars>>

Restart ==
    /\ pc = "done"
    /\ thrown = <<>>
    /\ twin.first = <<>>
    /\ twin' = [twin EXCEPT
                  !.first = <<[results |-> results, snapshot |-> snapshot[1]]>>]
    /\ bots' = twin.draw
    /\ object' = initialize_object
    /\ force' = [id \in Ids |-> NoForce]
    /\ push' = NoPush
    /\ tick_start' = [bots |-> twin.draw, object |-> initialize_object]
    /\ i' = 0
    /\ results' = <<>>
    /\ calls' = NoCalls
    /\ sampled_at' = <<>>
    /\ thrown' = <<>>
    /\ pc' = "loop"
    /\ UNCHANGED <<NUM_BOTS, steps, snapshot>>
    /\ UNCHANGED <<background_vars, player_vars>>

InitCaller ==
    /\ steps \in 0 .. MaxSteps
    /\ \E n \in 1 .. CallerBots :
         \E draw \in [0 .. (n - 1) -> BotInits] : EngineInit(n, draw)

NextCaller == Next \/ Retry \/ Restart

SpecCaller == InitCaller /\ [][NextCaller]_vars

\* ------------------------------------------------- the background script

\* The listener for 'vote' messages of background.js.  A vote is the string
\* that join('') makes of request.vote, as the sequence of its UTF-16 code
\* units: "yes", "no", "n" and "".
quorumThreshold == 2
MaxVotes == 4
VoteValues == { <<121, 101, 115>>, <<110, 111>>, <<110>>, <<>> }

RECURSIVE Join(_)
Join(vs) == IF vs = <<>> THEN <<>> ELSE Head(vs) \o Join(Tail(vs))

RECURSIVE CharCodeSum(_)
CharCodeSum(chars) ==
    IF chars = <<>> THEN 0 ELSE Head(chars) + CharCodeSum(Tail(chars))

thresholdDecision(vs) ==
    IF CharCodeSum(Join(vs)) % 2 = 0 THEN "approved" ELSE "denied"

\* A listener that keeps the votes it has decided on.
VoteKept ==
    /\ Len(heard) < MaxVotes
    /\ \E vote \in VoteValues :
         /\ heard' = Append(heard, vote)
         /\ votes' = Append(votes, vote)
         /\ responses' =
              IF Len(votes) + 1 >= quorumThreshold
              THEN Append(responses,
                          [decision |-> thresholdDecision(Append(votes, vote))])
              ELSE Append(responses, [waiting |-> TRUE])
    /\ UNCHANGED <<engine_vars, player_vars>>

\* One message with request.action === 'vote'.
Vote ==
    /\ Len(heard) < MaxVotes
    /\ \E vote \in VoteValues :
         /\ heard' = Append(heard, vote)
         /\ IF Len(votes) + 1 >= quorumThreshold
            THEN /\ responses' =
                      Append(responses,
                             [decision |->
                                 thresholdDecision(Append(votes, vote))])
                 /\ votes' = <<>>
            ELSE /\ responses' = Append(responses, [waiting |-> TRUE])
                 /\ votes' = Append(votes, vote)
    /\ UNCHANGED <<engine_vars, player_vars>>

\* The background script next to an engine that nobody runs.
InitBackground ==
    /\ steps = 0
    /\ EngineInit(1, [id \in {0} |-> CentreDraw])

NextBackground == Vote

SpecBackground == InitBackground /\ [][NextBackground]_vars

\* ------------------------------------------------------- the tone player

\* The object createTonePlayer returns.  Contexts, oscillators and gain nodes
\* are numbered as they are created, 0 stands for null.  start() runs up to
\* its await or, on a context that is not suspended, to its end in one piece;
\* stop() runs in one piece; what audioContext.resume() promised is settled
\* by the browser in a task of its own, so that other calls of start() and
\* stop() run between the call of resume() and the rest of start().
MaxStarts == 3

\* The state a new AudioContext is in: running if the page may play audio,
\* suspended if the browser's autoplay policy holds it back.
NewContextStates == {"suspended", "running"}

\* oscillator.start(): a TypeError on null, an InvalidStateError on an
\* oscillator that was started before.
OscillatorStart(osc, begun) ==
    IF osc = 0 THEN [at |-> "TypeError", started |-> begun]
    ELSE [at |-> IF begun[osc] = 0 THEN "returned" ELSE "InvalidStateError",
          started |-> [begun EXCEPT ![osc] = @ + 1]]

\* start(), from its call to its await or to its end.
Start ==
    /\ Len(start_calls) < MaxStarts
    /\ \E initial \in NewContextStates :
         LET create == audioContext = 0
             context == IF create THEN Len(context_state) + 1
                        ELSE audioContext
             osc == IF create THEN Len(started) + 1 ELSE oscillator
             begun == IF create THEN Append(started, 0) ELSE started
             states == IF create THEN Append(context_state, initial)
                       ELSE context_state
         IN  /\ audioContext' = context
             /\ gainNode' = IF create THEN osc ELSE gainNode
             /\ oscillator' = osc
             /\ context_state' = states
             /\ IF states[context] = "suspended"
                THEN /\ started' = begun
                     /\ start_calls' =
                          Append(start_calls,
                                 [at |-> "await", context |-> context])
                ELSE /\ started' = OscillatorStart(osc, begun).started
                     /\ start_calls' =
                          Append(start_calls,
                                 [at |-> OscillatorStart(osc, begun).at,
                                  context |-> context])
    /\ UNCHANGED <<engine_vars, background_vars>>

\* The promise of audioContext.resume() is fulfilled for one call of start(),
\* which goes on to oscillator.start() with the oscillator of that moment.
\* The context runs from then on, unless it was closed in between.
Resumed ==
    /\ \E call \in 1 .. Len(start_calls) :
         /\ start_calls[call].at = "await"
         /\ context_state' =
              [context_state EXCEPT ![start_calls[call].context] =
                  IF @ = "closed" THEN "closed" ELSE "running"]
         /\ started' = OscillatorStart(oscillator, started).started
         /\ start_calls' =
              [start_calls EXCEPT ![call].at =
                  OscillatorStart(oscillator, started).at]
    /\ UNCHANGED <<audioContext, oscillator, gainNode>>
    /\ UNCHANGED <<engine_vars, background_vars>>

\* The promise is rejected, which a browser may do once the context is
\* closed: start() throws at its await and never reaches oscillator.start().
Rejected ==
    /\ \E call \in 1 .. Len(start_calls) :
         /\ start_calls[call].at = "await"
         /\ context_state[start_calls[call].context] = "closed"
         /\ start_calls' = [start_calls EXCEPT ![call].at = "rejected"]
    /\ UNCHANGED <<audioContext, oscillator, gainNode, context_state, started>>
    /\ UNCHANGED <<engine_vars, background_vars>>

\* stop().  oscillator.stop() throws an InvalidStateError on an oscillator
\* that was never started, and stop() ends there, with nothing changed.
Stop ==
    /\ \/ /\ oscillator # 0
          /\ started[oscillator] = 0
          /\ UNCHANGED <<audioContext, oscillator, context_state>>
       \/ /\ oscillator # 0 => started[oscillator] > 0
          /\ oscillator' = 0
          /\ audioContext' = 0
          /\ context_state' =
               IF audioContext = 0 THEN context_state
               ELSE [context_state EXCEPT ![audioContext] = "closed"]
    /\ UNCHANGED <<gainNode, started, start_calls>>
    /\ UNCHANGED <<engine_vars, background_vars>>

\* The tone player next to an engine that nobody runs.
InitPlayer ==
    /\ steps = 0
    /\ EngineInit(1, [id \in {0} |-> CentreDraw])

NextPlayer == Start \/ Resumed \/ Rejected \/ Stop

SpecPlayer == InitPlayer /\ [][NextPlayer]_vars

\* --------------------------------------------------------------- properties

\* What the properties measure.  Magnitudes come out of Hypot, which rounds
\* down, and unit vectors out of Unit, which truncates each component, so two
\* quantities that are equal as reals may differ by RoundOff here.
RoundOff == S \div 500
Magnitude(f) == Hypot(f[1], f[2])
Close(a, b) == Abs(a - b) <= RoundOff
SameDirection(f, g) ==
    /\ Close(Unit(f[1], f[2])[1], Unit(g[1], g[2])[1])
    /\ Close(Unit(f[1], f[2])[2], Unit(g[1], g[2])[2])
AtRest(b) == b.vx = 0 /\ b.vy = 0
\* Distance of a bot from the object's centre, as update_object measures it.
PushDistance(obj, bot) ==
    IF obj.x = bot.x /\ obj.y = bot.y THEN 0
    ELSE Hypot(obj.x - bot.x, obj.y - bot.y)
InPushRange(obj, bot) ==
    PushDistance(obj, bot) < OBJECT_RADIUS + BOT_RADIUS + PUSH_MARGIN
\* The bot's velocity along the direction from the bot to the object's centre.
SpeedToward(obj, bot) ==
    bot.vx * Unit(ToObject(obj, bot)[1], ToObject(obj, bot)[2])[1]
    + bot.vy * Unit(ToObject(obj, bot)[1], ToObject(obj, bot)[2])[2]
Ticked == pc \in {"update_object", "sample"} \/ i > 0

\* C1: at the end of every tick every bot's phase satisfies 0 <= phase < 2 pi.
\* The initial phases are drawn from that interval too, so the claim says that
\* the phases lie in it in every state.
PhaseWrapped == \A id \in Ids : 0 <= bots[id].phase /\ bots[id].phase < TWO_PI

\* C2: after a tick every bot's centre lies within [BOT_RADIUS, WORLD_SIZE -
\* BOT_RADIUS] on both axes and the object's centre within [OBJECT_RADIUS,
\* WORLD_SIZE - OBJECT_RADIUS], wherever they were before the tick.
WithinWorld ==
    /\ Ticked =>
         \A id \in Ids :
            /\ BOT_RADIUS <= bots[id].x /\ bots[id].x <= WORLD_SIZE - BOT_RADIUS
            /\ BOT_RADIUS <= bots[id].y /\ bots[id].y <= WORLD_SIZE - BOT_RADIUS
    /\ OBJECT_RADIUS <= object.x /\ object.x <= WORLD_SIZE - OBJECT_RADIUS
    /\ OBJECT_RADIUS <= object.y /\ object.y <= WORLD_SIZE - OBJECT_RADIUS

\* A bot drawn outside the boundaries has been put back on them by its first
\* tick.
ClampedToWorld ==
    /\ pc = "update_object"
    /\ \E id \in Ids :
          /\ tick_start.bots[id].x < BOT_RADIUS
          /\ tick_start.bots[id].y > WORLD_SIZE - BOT_RADIUS
          /\ bots[id].x = BOT_RADIUS
          /\ bots[id].y = WORLD_SIZE - BOT_RADIUS

\* C3: a force that a bot accumulated with a magnitude above MAX_FORCE is
\* rescaled to the magnitude MAX_FORCE with its direction kept before it is
\* applied to the bot's velocity; any other force is applied as accumulated.
ForceCapped ==
    pc = "update_object" =>
      \A id \in Ids :
         /\ IF Magnitude(force[id].raw) > MAX_FORCE
            THEN /\ Magnitude(force[id].applied) <= MAX_FORCE
                 /\ Close(Magnitude(force[id].applied), MAX_FORCE)
                 /\ SameDirection(force[id].raw, force[id].applied)
            ELSE force[id].applied = force[id].raw
         /\ bots[id].vx = Damped(tick_start.bots[id].vx, force[id].applied[1],
                                 bots[id].energy)
         /\ bots[id].vy = Damped(tick_start.bots[id].vy, force[id].applied[2],
                                 bots[id].energy)

\* A bot of a crowd accumulated more than MAX_FORCE, along neither axis, and
\* got a different force applied.
ForceRescaled ==
    /\ pc = "update_object"
    /\ \E id \in Ids :
          /\ Magnitude(force[id].raw) > 2 * MAX_FORCE
          /\ force[id].raw[1] # 0 /\ force[id].raw[2] # 0
          /\ force[id].applied # force[id].raw
          /\ Magnitude(force[id].applied) <= MAX_FORCE

\* C4: the net force on the object that update_object accumulates in a tick
\* never exceeds MAX_FORCE in magnitude.
ObjectForceCapped == Magnitude(push.total) <= MAX_FORCE

\* C5: a bot in push range contributes to the force on the object only if its
\* velocity has a strictly positive component along the direction from the bot
\* to the object's centre.
PushesOnlyToward ==
    pc = "sample" =>
      \A id \in Ids :
         push.terms[id] # <<0, 0, 0>> =>
            SpeedToward(tick_start.object, bots[id]) > 0

\* C6: a bot in push range whose velocity is perpendicular to its displacement
\* from the object contributes no force and is not counted as interacting.
AcrossPushesNothing ==
    pc = "sample" =>
      \A id \in Ids :
         (/\ InPushRange(tick_start.object, bots[id])
          /\ SpeedToward(tick_start.object, bots[id]) = 0)
            => push.terms[id] = <<0, 0, 0>>

\* A bot in push range level with the object's centre that moves straight
\* up or down, and has added nothing.
MovingAcross ==
    /\ pc = "sample"
    /\ \E id \in Ids :
          /\ InPushRange(tick_start.object, bots[id])
          /\ bots[id].x # tick_start.object.x
          /\ bots[id].y = tick_start.object.y /\ tick_start.object.yf = 0
          /\ bots[id].vx = 0 /\ bots[id].vy # 0
          /\ SpeedToward(tick_start.object, bots[id]) = 0
          /\ push.terms[id] = <<0, 0, 0>>

\* C7: if every bot's velocity is zero at the start of a tick, the tick adds
\* no force to the object and leaves the object's velocity as it was, so that
\* an object at rest stays at rest at the same position.
RestingBotsLeaveObject ==
    (pc = "sample" /\ \A id \in Ids : AtRest(tick_start.bots[id])) =>
       /\ push.total = <<0, 0>>
       /\ object.vx = tick_start.object.vx
       /\ object.vy = tick_start.object.vy
       /\ AtRest(tick_start.object) => object = tick_start.object

\* C7 as amended: if every bot's velocity is zero at the start of a tick and
\* no bot is in push range of the object when update_object runs, the tick
\* adds no force to the object and changes the object's velocity by the
\* damping only, so that an object at rest stays at rest at the same position.
RestingBotsOutOfRangeLeaveObject ==
    (/\ pc = "sample"
     /\ \A id \in Ids : AtRest(tick_start.bots[id])
     /\ \A id \in Ids : ~InPushRange(tick_start.object, bots[id])) =>
       /\ push.total = <<0, 0>>
       /\ push.interacting_bots = 0
       /\ object.vx = Mul(tick_start.object.vx, (98 * S) \div 100)
       /\ object.vy = Mul(tick_start.object.vy, (98 * S) \div 100)
       /\ AtRest(tick_start.object) => object = tick_start.object

\* Bots that started a tick at rest out of push range, one of which the tick
\* has set moving away from the object.
SetMovingOutOfRange ==
    /\ pc = "sample"
    /\ \A id \in Ids : AtRest(tick_start.bots[id])
    /\ \A id \in Ids : ~InPushRange(tick_start.object, bots[id])
    /\ \E id \in Ids : SpeedToward(tick_start.object, bots[id]) < 0
    /\ object = tick_start.object

\* C8: two bots further apart than RESONANCE_RANGE have a coupling of exactly
\* 0, and neither changes the force or the phase of the other: a bot that is
\* out of range of every other bot comes out of update_bots as it would with
\* no other bot in the world.
Isolated(id) ==
    \A other \in Ids \ {id} :
       /\ Distance(tick_start.bots[id], tick_start.bots[other])
             > RESONANCE_RANGE
       /\ Distance(tick_start.bots[id], bots[other]) > RESONANCE_RANGE
Alone(id) ==
    UpdateBot([k \in Ids |-> AdvancePhase(tick_start.bots[k])], id, {},
              tick_start.object)
OutOfRangeUncoupled ==
    /\ \A id \in Ids : \A other \in Ids \ {id} :
          Distance(bots[id], bots[other]) > RESONANCE_RANGE =>
             /\ get_resonance_coupling(bots[id], bots[other]) = 0
             /\ CouplingTerm(bots[id], bots[other]) = <<0, 0, 0>>
    /\ pc = "update_object" =>
          \A id \in Ids :
             Isolated(id) =>
                /\ bots[id] = Alone(id).bot
                /\ force[id].raw = Alone(id).raw

\* A bot out of range of the others has been updated next to two bots that
\* are coupled to each other.
UpdatedOutOfRange ==
    /\ pc = "update_object"
    /\ \E id \in Ids :
          /\ Isolated(id)
          /\ bots[id] # tick_start.bots[id]
          /\ \E a, b \in Ids \ {id} :
                a # b /\ get_resonance_coupling(bots[a], bots[b]) # 0

FrameKept ==
    [][/\ \A id \in Ids :
             /\ bots'[id].energy = bots[id].energy
             /\ bots'[id].id = bots[id].id
             /\ bots'[id].frequency = bots[id].frequency
             /\ bots'[id].target_x = bots[id].target_x
             /\ bots'[id].target_y = bots[id].target_y
       /\ object'.mass = object.mass
       /\ object'.radius = object.radius]_vars

\* A run has ended after several ticks that moved bots and object, with the
\* values of the construction still in place.
FrameAfterRun ==
    /\ pc = "done"
    /\ i > 1
    /\ object.vx # 0
    /\ object.mass = OBJECT_MASS /\ object.radius = OBJECT_RADIUS
    /\ \E id \in Ids :
          /\ ~AtRest(bots[id])
          /\ bots[id].id = id
          /\ bots[id].energy = 11000
          /\ bots[id].target_x = WORLD_SIZE \div 2
          /\ bots[id].target_y = WORLD_SIZE \div 2

\* C11: every bot's energy lies in [0, 1] in every reachable state, the
\* initial state that initialize_bots produces included.
EnergyWithinUnit ==
    \A id \in Ids : 0 <= bots[id].energy /\ bots[id].energy <= S

TickInOrder ==
    /\ pc = "update_object" =>
          /\ calls.update_bots = i + 1 /\ calls.update_object = i
          /\ object = tick_start.object
    /\ pc = "sample" =>
          /\ calls.update_bots = i + 1 /\ calls.update_object = i + 1
          /\ object = update_object(bots, tick_start.object).object
          /\ push = update_object(bots, tick_start.object).push
          /\ Len(results) = Len(sampled_at)
          /\ \A k \in 1 .. Len(sampled_at) : sampled_at[k] < i
    /\ (pc = "loop" /\ i > 0) =>
          /\ calls.update_bots = i /\ calls.update_object = i
          /\ ShouldSample(i - 1) =>
                /\ sampled_at[Len(sampled_at)] = i - 1
                /\ results[Len(results)] = get_metrics(bots, object)

\* The first tick has set bots moving from rest, one of them has pushed the
\* object in that same tick, and the sample of the tick shows the object
\* moving.
PushedWithinTick ==
    /\ pc = "loop"
    /\ i = 1
    /\ \A id \in Ids : AtRest(tick_start.bots[id])
    /\ push.interacting_bots > 0
    /\ Len(results) = 1
    /\ results[1].object_speed > 0

\* C14: run_simulation(steps) executes exactly steps ticks, each one
\* update_bots followed by one update_object, and then terminates, for every
\* non-negative steps; no tick runs after the snapshot is written.
RunsStepsTicks ==
    /\ [](/\ Ended =>
               /\ i = steps
               /\ calls.update_bots = steps
               /\ calls.update_object = steps
          /\ calls.update_object <= calls.update_bots
          /\ calls.update_bots <= calls.update_object + 1
          /\ calls.update_bots <= steps
          /\ calls.writeFileSync > 0 => Ended)
    /\ <>Ended

\* Runs of no tick, of one, of several and of many have ended with their
\* snapshot written.
RanToTheEnd ==
    /\ pc = "done"
    /\ steps \in {0, 1, MaxSteps, CrowdSteps}
    /\ calls = [update_bots |-> steps, update_object |-> steps,
                writeFileSync |-> 1]
    /\ Len(snapshot) = 1

\* C15: run_simulation records a sample of coherence, object speed, object
\* position and all bot positions and phases on every step whose index is a
\* multiple of SAMPLE_EVERY and on no other step: consecutive samples are
\* exactly SAMPLE_EVERY ticks apart.
SampledEveryTenth ==
    /\ Len(results) = Len(sampled_at)
    /\ \A k \in 1 .. Len(sampled_at) :
          /\ sampled_at[k] = (k - 1) * SAMPLE_EVERY
          /\ k > 1 => sampled_at[k] - sampled_at[k - 1] = SAMPLE_EVERY
          /\ DOMAIN results[k] = {"coherence", "object_speed",
                                  "object_position", "bot_positions"}
          /\ DOMAIN results[k].bot_positions = Ids
    /\ \A step \in 0 .. i - 1 :
          ShouldSample(step) <=> \E k \in 1 .. Len(sampled_at) :
                                     sampled_at[k] = step

\* A run has passed its second sample and ticks after it that left none.
SampledTwice ==
    /\ Len(results) = 2
    /\ sampled_at = <<0, SAMPLE_EVERY>>
    /\ i > SAMPLE_EVERY + 2
    /\ results[1] # results[2]

\* C16: on completion run_simulation(steps) has persisted exactly one
\* snapshot, written after the last tick has finished, and the step count
\* stored in it is the number of ticks executed, steps.
OneSnapshotOfSteps ==
    /\ pc # "done" => snapshot = <<>>
    /\ pc = "done" =>
          /\ Len(snapshot) = 1
          /\ calls.writeFileSync = 1
          /\ i = steps
          /\ snapshot[1].simulation_steps = steps
          /\ snapshot[1].simulation_steps = calls.update_bots
          /\ snapshot[1].simulation_steps = calls.update_object
          /\ snapshot[1].final_metrics = get_metrics(bots, object)

\* A run of several ticks has written its snapshot, with the object where
\* the last tick left it.
SnapshotWritten ==
    /\ pc = "done"
    /\ steps = MaxSteps
    /\ calls.update_object = MaxSteps
    /\ snapshot[1].simulation_steps = MaxSteps
    /\ snapshot[1].final_metrics.object_position.xf = object.xf
    /\ push.interacting_bots > 0

\* C17 as stated: for every steps >= 1 the final metrics of the snapshot are
\* the last element of the sample list that run_simulation returns.
SnapshotIsLastSample ==
    (pc = "done" /\ steps >= 1) =>
        snapshot[1].final_metrics = results[Len(results)]

\* C17: the final metrics of the snapshot are the metrics of the state after
\* the last tick; they are the last element of the sample list when the last
\* tick was a sampled one, steps - 1 a multiple of SAMPLE_EVERY.
SnapshotIsLastSampleOfSampledTick ==
    (pc = "done" /\ steps >= 1) =>
        /\ snapshot[1].final_metrics = get_metrics(bots, object)
        /\ Len(results) >= 1
        /\ ShouldSample(steps - 1) =>
              snapshot[1].final_metrics = results[Len(results)]

\* A run of one tick has written a snapshot whose metrics are its one sample,
\* taken after bots and object have moved.
SnapshotOfSampledTick ==
    /\ pc = "done"
    /\ steps = 1
    /\ Len(results) = 1
    /\ snapshot[1].final_metrics = results[1]
    /\ results[1].object_speed > 0

DegenerateSkipped ==
    /\ (/\ pc = "update_object"
        /\ \A id \in Ids : DividesByZero(object, tick_start.bots[id])) =>
          \A id \in Ids : force[id].raw = <<0, 0>>
    /\ pc = "sample" =>
          /\ \A id \in Ids :
                DividesByZero(tick_start.object, bots[id]) =>
                    push.terms[id] = <<0, 0, 0>>
          /\ push.divided_by_zero = {}

\* C21: the population is fixed for the whole run: after any number of ticks
\* there are exactly NUM_BOTS bots, their ids are pairwise distinct, the bot
\* at index k has id k, and get_metrics lists positions and phases one entry
\* per bot in creation order.
PopulationFixed ==
    /\ DOMAIN bots = Ids
    /\ Cardinality(DOMAIN bots) = NUM_BOTS
    /\ DOMAIN twin.draw = DOMAIN bots
    /\ \A id \in Ids : bots[id].id = id
    /\ \A a \in Ids : \A b \in Ids : a # b => bots[a].id # bots[b].id
    /\ \A k \in 1 .. Len(results) : DOMAIN results[k].bot_positions = Ids
    /\ (pc = "loop" /\ i > 0 /\ ShouldSample(i - 1)) =>
          \A id \in Ids :
              results[Len(results)].bot_positions[id] =
                  [x |-> bots[id].x, y |-> bots[id].y,
                   phase |-> bots[id].phase]
    /\ \A id \in Ids :
          get_metrics(bots, object).bot_positions[id] =
              [x |-> bots[id].x, y |-> bots[id].y, phase |-> bots[id].phase]

\* Several bots have moved through several ticks, and the sample of the first
\* tick lists them apart.
PopulationAfterTicks ==
    /\ pc = "done"
    /\ steps = MaxSteps
    /\ NUM_BOTS = MaxBots
    /\ \E id \in Ids : bots[id].x # twin.draw[id].x
    /\ Len(results) = 1
    /\ \A a \in Ids : \A b \in Ids :
          a # b => results[1].bot_positions[a] # results[1].bot_positions[b]

\* The angle between the phases of the two bots of a pair, in [0, pi].
PhaseGapOf(d) == Min(d, TWO_PI - d)
PhaseGap(bs) == PhaseGapOf(JsRem(Abs(bs[0].phase - bs[1].phase), TWO_PI))
CoherenceOf(bs) == Coherence(SumTrig(bs, Ids), NUM_BOTS)
\* Two bots less than RESONANCE_RANGE apart with the same frequency and energy.
ResonantPair(bs) ==
    /\ NUM_BOTS = 2
    /\ bs[0].frequency = bs[1].frequency
    /\ bs[0].energy = bs[1].energy
    /\ Distance(bs[0], bs[1]) < RESONANCE_RANGE

BufferedBots(advanced, obj) ==
    [id \in Ids |-> UpdateBot(advanced, id, Ids \ {id}, obj).bot]
update_bots_buffered(bs, obj) ==
    BufferedBots([id \in Ids |-> AdvancePhase(bs[id])], obj)

\* C23: within one tick every bot's coupling, phase nudge and collision
\* avoidance are computed from the other bots' positions at the start of the
\* tick and their phases right after the free phase advance: update_bots
\* leaves the bots as a double-buffered update leaves them.
SemiSynchronous ==
    pc = "update_object" =>
        bots = update_bots_buffered(tick_start.bots, tick_start.object)

\* The vector from a bot to its own target point.
ToTarget(bot) == <<bot.target_x - bot.x, bot.target_y - bot.y>>

\* C24: the target attraction that update_bots adds to a bot's force is a
\* vector of magnitude 0.5 from the bot toward the bot's own target point
\* (target_x, target_y), left out only when the bot is exactly at its target
\* point, also after the object has moved away from its initial centre.
AttractedToTarget ==
    (pc = "loop" /\ i < steps) =>
        \A id \in Ids :
            /\ Attraction(object, bots[id]) = AttractionAlong(ToTarget(bots[id]))
            /\ Attraction(object, bots[id]) = <<0, 0>> <=>
                   ToTarget(bots[id]) = <<0, 0>>
            /\ ToTarget(bots[id]) # <<0, 0>> =>
                   Close(Magnitude(Attraction(object, bots[id])), S \div 2)

\* Bot id as it is when its turn in update_bots' second loop comes, and
\* another bot k as bot id reads it then.
AtItsTurn(id) == AdvancePhase(tick_start.bots[id])
SeenBy(id, k) == IF k < id THEN bots[k] ELSE AdvancePhase(tick_start.bots[k])
NudgeTerm(self, other) ==
    Mul(get_resonance_coupling(self, other), Sin(other.phase - self.phase))
RECURSIVE NudgeSum(_, _)
NudgeSum(id, others) ==
    IF others = {} THEN 0
    ELSE NudgeTerm(AtItsTurn(id), SeenBy(id, First(others)))
         + NudgeSum(id, others \ {First(others)})

\* C25 as stated: the nudge of bot i is the sum over the coupled bots j of
\* coupling(i, j) * sin(phase_j - phase_i), added to the phase as it is, on
\* top of the free advance.
NudgeAddedDirectly ==
    pc = "update_object" =>
        \A id \in Ids :
            bots[id].phase = AtItsTurn(id).phase + NudgeSum(id, Ids \ {id})

\* C25: the nudge of bot i is the sum over the coupled bots j of
\* coupling(i, j) * sin(phase_j - phase_i), with the bots j as bot i reads
\* them at its turn, multiplied by DT and added to the phase once per tick on
\* top of the free advance.
NudgeScaledByDT ==
    pc = "update_object" =>
        \A id \in Ids :
            bots[id].phase =
                AtItsTurn(id).phase + Mul(NudgeSum(id, Ids \ {id}), DT)

\* A bot coupled to two others has had its phase moved by their nudges.
NudgedByTwo ==
    /\ pc = "update_object"
    /\ NUM_BOTS = 3
    /\ \E id \in Ids :
          /\ \A k \in Ids \ {id} :
                NudgeTerm(AtItsTurn(id), SeenBy(id, k)) # 0
          /\ Mul(NudgeSum(id, Ids \ {id}), DT) # 0
          /\ bots[id].phase # AtItsTurn(id).phase

\* C26: the free phase advance is applied to all bots before any coupling is
\* computed, and right after it every bot's phase lies in [0, 2 pi), whatever
\* phase the bot carried over from the previous tick: the advance that the
\* coming update_bots makes leaves every phase in that interval, and the
\* first bot of the tick is nudged by the advanced phases of all others.
AdvancedPhaseWrapped ==
    /\ (pc = "loop" /\ i < steps) =>
          \A id \in Ids :
              /\ 0 <= AdvancePhase(bots[id]).phase
              /\ AdvancePhase(bots[id]).phase < TWO_PI
    /\ pc = "update_object" =>
          \A k \in Ids \ {0} :
              SeenBy(0, k).phase = AdvancePhase(tick_start.bots[k]).phase

\* MAX_FORCE * DT * energy, the most a tick adds to a bot's speed before
\* damping, and 19 times that, the fixed point of
\* v' = 0.95 * (v + MAX_FORCE * DT * energy).
SpeedGain(bot) == Mul(Mul(MAX_FORCE, DT), bot.energy)
SpeedBound(bot) == 19 * SpeedGain(bot)
Speed(bot) == Hypot(bot.vx, bot.vy)
Displacement(before, after) == Hypot(after.x - before.x, after.y - before.y)
InsideBoundaries(bot) ==
    /\ BOT_RADIUS <= bot.x /\ bot.x <= WORLD_SIZE - BOT_RADIUS
    /\ BOT_RADIUS <= bot.y /\ bot.y <= WORLD_SIZE - BOT_RADIUS

\* C27 as stated: from zero velocity on, each bot's speed is at most
\* 19 * MAX_FORCE * DT * energy in every state, so a tick moves a bot's
\* position by at most that bound times DT.
SpeedAndStepBounded ==
    /\ \A id \in Ids : Speed(bots[id]) <= SpeedBound(bots[id])
    /\ pc = "update_object" =>
          \A id \in Ids :
              Displacement(tick_start.bots[id], bots[id])
                  <= Mul(SpeedBound(bots[id]), DT) + 1

\* C27: from zero velocity on, each bot's speed is at most
\* 19 * MAX_FORCE * DT * energy in every state: a tick takes the speed v to
\* at most 0.95 * (v + MAX_FORCE * DT * energy).  A tick that a bot starts
\* within the world boundaries moves its position by at most that bound times
\* DT.
SpeedBounded ==
    /\ \A id \in Ids : Speed(bots[id]) <= SpeedBound(bots[id])
    /\ pc = "update_object" =>
          \A id \in Ids :
              /\ Speed(bots[id]) <=
                     Mul(Speed(tick_start.bots[id]) + SpeedGain(bots[id]),
                         (95 * S) \div 100) + 2
              /\ InsideBoundaries(tick_start.bots[id]) =>
                     Displacement(tick_start.bots[id], bots[id])
                         <= Mul(SpeedBound(bots[id]), DT) + 1

\* A bot of the crowd is moving fast through its fourth tick or a later one,
\* pushed from within the boundaries by a force at the cap.
MovingFast ==
    /\ pc = "update_object"
    /\ i >= 3
    /\ \E id \in Ids :
          /\ InsideBoundaries(tick_start.bots[id])
          /\ Magnitude(force[id].raw) > MAX_FORCE
          /\ Speed(bots[id]) > Speed(tick_start.bots[id])
          /\ Speed(bots[id]) > 2 * SpeedGain(bots[id])
          /\ Displacement(tick_start.bots[id], bots[id]) > 0

\* C28: run_simulation(steps) returns exactly ceil(steps / 10) samples, the
\* first of them taken after the first tick (loop index 0); a run with
\* steps = 0 returns an empty list and still writes the final snapshot.
ReturnsCeilSamples ==
    /\ pc = "done" =>
          /\ Len(results) = (steps + SAMPLE_EVERY - 1) \div SAMPLE_EVERY
          /\ steps = 0 => results = <<>>
          /\ steps > 0 => sampled_at[1] = 0
          /\ Len(snapshot) = 1
    /\ (pc = "loop" /\ i = 1) =>
          /\ calls.update_bots = 1
          /\ calls.update_object = 1
          /\ results = <<get_metrics(bots, object)>>

\* A run of more than ten steps, not a multiple of ten, has returned two
\* samples.
ReturnedTwoSamples ==
    /\ pc = "done"
    /\ steps = PairSteps
    /\ steps > SAMPLE_EVERY
    /\ steps < 2 * SAMPLE_EVERY
    /\ Len(results) = 2
    /\ sampled_at = <<0, SAMPLE_EVERY>>
    /\ Len(snapshot) = 1

\* C29: after any sequence of 'vote' messages fewer than quorumThreshold
\* votes are pending, namely those heard since the last decision; the k-th
\* vote is answered with a decision exactly if k is a multiple of
\* quorumThreshold, the decision is that of the quorumThreshold votes heard
\* since the decision before it, and every other vote is answered with
\* waiting.
SinceLastDecision(k) ==
    SubSeq(heard, k - quorumThreshold + 1, k)
QuorumDecides ==
    /\ Len(votes) < quorumThreshold
    /\ votes = SubSeq(heard, Len(heard) - (Len(heard) % quorumThreshold) + 1,
                      Len(heard))
    /\ Len(responses) = Len(heard)
    /\ \A k \in 1 .. Len(heard) :
         IF k % quorumThreshold = 0
         THEN responses[k] =
                 [decision |-> thresholdDecision(SinceLastDecision(k))]
         ELSE responses[k] = [waiting |-> TRUE]
\* Four votes, "n", "yes", "n", "yes": denied on the second and on the
\* fourth, which all four together would have approved.
DecidedTwice ==
    /\ heard = << <<110>>, <<121, 101, 115>>, <<110>>, <<121, 101, 115>> >>
    /\ responses = <<[waiting |-> TRUE], [decision |-> "denied"],
                     [waiting |-> TRUE], [decision |-> "denied"]>>
    /\ votes = <<>>
    /\ thresholdDecision(heard) = "approved"

\* C30: under every interleaving of start() and stop(), start() never calls
\* oscillator.start() on a null oscillator nor twice on the same oscillator,
\* and oscillator is null exactly when audioContext is null.
CalledOnNull ==
    \E call \in 1 .. Len(start_calls) : start_calls[call].at = "TypeError"
StartedTwice == \E osc \in 1 .. Len(started) : started[osc] > 1
OscillatorStartedOnce ==
    /\ ~CalledOnNull
    /\ ~StartedTwice
    /\ (oscillator = 0) <=> (audioContext = 0)
=============================================================================
